---------------------------- MODULE Spec2Model ----------------------------
(***************************************************************************)
(* Model of nscwrs (src/src/main.rs): the rule loader load_color_rules     *)
(* with parse_colors / parse_color, and the line colorizer                 *)
(* apply_color_rules.                                                      *)
(*                                                                         *)
(* Text is modelled as a sequence of one-character strings.  The rule      *)
(* file is the sequence of its lines (what str::lines yields).             *)
(***************************************************************************)
EXTENDS Integers, Sequences, FiniteSets, TLC

VARIABLES
    pc,               \* position of the modelled function
    content,          \* load_color_rules: lines of the configuration text
    line_num,         \* load_color_rules: number of lines consumed so far
    rules,            \* Vec<Rule>
    last_fg,          \* Option<Color>
    last_bg,          \* Option<Color>
    awaiting_regex,   \* bool
    diag,             \* what eprintln! wrote: <<kind, 1-based line number>>
    line,             \* apply_color_rules: the input line
    use_color,        \* apply_color_rules: the flag
    matches,          \* Vec<(start, end, rule_idx)>
    filtered_matches, \* the matches accepted by the greedy scan
    last_pos,         \* cursor of the rendering loop
    next_match,       \* number of accepted matches already rendered
    result,           \* the output string
    cfg_file,         \* main: the wrapper file, [state, text]
    real_found,       \* main: find_real_program finds the program
    child_out,        \* main: what reader.lines() will yield, Ok(line) or Err
    nread,            \* main: number of items taken from reader.lines()
    stdout            \* main: the lines written to stdout

vars == <<pc, content, line_num, rules, last_fg, last_bg, awaiting_regex, diag,
          line, use_color, matches, filtered_matches, last_pos, next_match, result,
          cfg_file, real_found, child_out, nread, stdout>>

loadVars == <<content, line_num, last_fg, last_bg, awaiting_regex, diag>>
colorVars == <<line, use_color, matches, filtered_matches, last_pos, next_match, result>>
mainVars == <<cfg_file, real_found, child_out, nread, stdout>>

----------------------------------------------------------------------------
(* Bounds *)

MaxCfgLines == 4
MaxLen == 3
MaxMatches == 3
MaxItems == 3
MaxParts == 3

----------------------------------------------------------------------------
(* Option<T> *)

None == <<"None">>
Some(x) == <<"Some", x>>
IsSome(o) == o # None
Unwrap(o) == o[2]

----------------------------------------------------------------------------
(* Text helpers: str::trim, starts_with, strip_prefix, strip_suffix, split,
   to_lowercase *)

IsSpace(c) == c \in {" ", "\t"}

RECURSIVE TrimStart(_)
TrimStart(s) ==
    IF s # <<>> /\ IsSpace(Head(s)) THEN TrimStart(Tail(s)) ELSE s

RECURSIVE TrimEnd(_)
TrimEnd(s) ==
    IF s # <<>> /\ IsSpace(s[Len(s)]) THEN TrimEnd(SubSeq(s, 1, Len(s) - 1)) ELSE s

Trim(s) == TrimEnd(TrimStart(s))

StartsWith(s, p) == Len(s) >= Len(p) /\ SubSeq(s, 1, Len(p)) = p

EndsWith(s, p) == Len(s) >= Len(p) /\ SubSeq(s, Len(s) - Len(p) + 1, Len(s)) = p

\* Option<&str>: None, or the rest after the prefix
StripPrefix(s, p) ==
    IF StartsWith(s, p) THEN Some(SubSeq(s, Len(p) + 1, Len(s))) ELSE None

StripSuffix(s, p) ==
    IF EndsWith(s, p) THEN Some(SubSeq(s, 1, Len(s) - Len(p))) ELSE None

\* str::split(sep): the pieces between the separators, at least one piece
RECURSIVE SplitFrom(_, _, _)
SplitFrom(s, sep, piece) ==
    IF s = <<>> THEN <<piece>>
    ELSE IF Head(s) = sep THEN <<piece>> \o SplitFrom(Tail(s), sep, <<>>)
    ELSE SplitFrom(Tail(s), sep, Append(piece, Head(s)))

Split(s, sep) == SplitFrom(s, sep, <<>>)

LowerChar(c) ==
    CASE c = "A" -> "a" [] c = "B" -> "b" [] c = "C" -> "c" [] c = "D" -> "d"
      [] c = "E" -> "e" [] c = "F" -> "f" [] c = "G" -> "g" [] c = "H" -> "h"
      [] c = "I" -> "i" [] c = "J" -> "j" [] c = "K" -> "k" [] c = "L" -> "l"
      [] c = "M" -> "m" [] c = "N" -> "n" [] c = "O" -> "o" [] c = "P" -> "p"
      [] c = "Q" -> "q" [] c = "R" -> "r" [] c = "S" -> "s" [] c = "T" -> "t"
      [] c = "U" -> "u" [] c = "V" -> "v" [] c = "W" -> "w" [] c = "X" -> "x"
      [] c = "Y" -> "y" [] c = "Z" -> "z" [] OTHER -> c

ToLowercase(s) == [i \in 1..Len(s) |-> LowerChar(s[i])]

----------------------------------------------------------------------------
(* parse_color *)

parse_color(color) ==
    LET c == ToLowercase(color) IN
    CASE c = <<"r","e","d">> -> "Red"
      [] c = <<"b","l","u","e">> -> "Blue"
      [] c = <<"g","r","e","e","n">> -> "Green"
      [] c = <<"y","e","l","l","o","w">> -> "Yellow"
      [] c = <<"m","a","g","e","n","t","a">> -> "Magenta"
      [] c = <<"c","y","a","n">> -> "Cyan"
      [] c = <<"w","h","i","t","e">> -> "White"
      [] c = <<"b","l","a","c","k">> -> "Black"
      [] c = <<"b","r","i","g","h","t","r","e","d">> -> "BrightRed"
      [] c = <<"b","r","i","g","h","t","b","l","u","e">> -> "BrightBlue"
      [] c = <<"b","r","i","g","h","t","g","r","e","e","n">> -> "BrightGreen"
      [] c = <<"b","r","i","g","h","t","y","e","l","l","o","w">> -> "BrightYellow"
      [] c = <<"b","r","i","g","h","t","m","a","g","e","n","t","a">> -> "BrightMagenta"
      [] c = <<"b","r","i","g","h","t","c","y","a","n">> -> "BrightCyan"
      [] c = <<"b","r","i","g","h","t","w","h","i","t","e">> -> "BrightWhite"
      [] OTHER -> "White"

----------------------------------------------------------------------------
(* parse_colors: the loop over the comma-separated parts, each trimmed; a
   later fg: or bg: part overwrites an earlier one *)

FgPrefix == <<"f","g",":">>
BgPrefix == <<"b","g",":">>

\* the loop keeping the first fg: and the first bg: part
RECURSIVE ParseParts_FirstWins(_, _, _)
ParseParts_FirstWins(parts, fg, bg) ==
    IF parts = <<>> THEN <<fg, bg>>
    ELSE LET part == Trim(Head(parts)) IN
         IF IsSome(StripPrefix(part, FgPrefix))
         THEN ParseParts_FirstWins(Tail(parts),
                  IF IsSome(fg) THEN fg
                  ELSE Some(parse_color(Unwrap(StripPrefix(part, FgPrefix)))), bg)
         ELSE IF IsSome(StripPrefix(part, BgPrefix))
         THEN ParseParts_FirstWins(Tail(parts), fg,
                  IF IsSome(bg) THEN bg
                  ELSE Some(parse_color(Unwrap(StripPrefix(part, BgPrefix)))))
         ELSE ParseParts_FirstWins(Tail(parts), fg, bg)

RECURSIVE ParseParts(_, _, _)
ParseParts(parts, fg, bg) ==
    IF parts = <<>> THEN <<fg, bg>>
    ELSE LET part == Trim(Head(parts)) IN
         IF IsSome(StripPrefix(part, FgPrefix))
         THEN ParseParts(Tail(parts),
                         Some(parse_color(Unwrap(StripPrefix(part, FgPrefix)))), bg)
         ELSE IF IsSome(StripPrefix(part, BgPrefix))
         THEN ParseParts(Tail(parts), fg,
                         Some(parse_color(Unwrap(StripPrefix(part, BgPrefix)))))
         ELSE ParseParts(Tail(parts), fg, bg)

parse_colors(color_def) == ParseParts(Split(color_def, ","), None, None)

----------------------------------------------------------------------------
(* main's own state while load_color_rules or apply_color_rules is run alone *)

MainAtRest ==
    /\ cfg_file = [state |-> "readable", text |-> <<>>]
    /\ real_found = TRUE
    /\ child_out = <<>>
    /\ nread = 0
    /\ stdout = <<>>

----------------------------------------------------------------------------
(* Regex::new: whether the regex crate compiles the pattern source.  The
   syntax modelled: literals, groups ( ), character classes [ ] (whose first
   member may be "]"), and the repetition operator "*", which needs an
   expression before it. *)

RECURSIVE ClassCloses(_)
ClassCloses(s) == s # <<>> /\ (Head(s) = "]" \/ ClassCloses(Tail(s)))

RECURSIVE AfterClass(_)
AfterClass(s) == IF Head(s) = "]" THEN Tail(s) ELSE AfterClass(Tail(s))

RECURSIVE RegexOk(_, _, _)
RegexOk(s, depth, atom) ==
    IF s = <<>> THEN depth = 0
    ELSE CASE Head(s) = "(" -> RegexOk(Tail(s), depth + 1, FALSE)
           [] Head(s) = ")" -> depth > 0 /\ RegexOk(Tail(s), depth - 1, TRUE)
           [] Head(s) = "*" -> atom /\ RegexOk(Tail(s), depth, TRUE)
           [] Head(s) = "[" ->
                /\ Len(s) >= 2
                /\ ClassCloses(SubSeq(s, 3, Len(s)))
                /\ RegexOk(AfterClass(SubSeq(s, 3, Len(s))), depth, TRUE)
           [] OTHER -> RegexOk(Tail(s), depth, TRUE)

RegexNew(src) == IF RegexOk(src, 0, FALSE) THEN "Ok" ELSE "Err"

----------------------------------------------------------------------------
(* The configuration lines the loader is run on *)

LineBlank    == <<" ", " ">>
LineComment  == <<" ", "#", "[", "x", "]">>
LineRed      == <<"[","f","g",":","r","e","d","]">>
LineRedBlue  == <<" ","[","f","g",":","R","e","d",","," ","b","g",":","b","l","u","e","]"," ">>
LineCyan     == <<"[","b","g",":","x",",","f","g",":","c","y","a","n","]">>
LineNoFg     == <<"[","b","g",":","b","l","a","c","k","]">>
LineTwoFg    == <<"[","f","g",":","r","e","d",",","f","g",":","b","l","u","e","]">>
LineUnclosed == <<"[","f","g",":","r","e","d">>
LinePattern  == <<"E","R","R">>
LineBadRegex == <<"a","(">>

CfgLines == {LineBlank, LineComment, LineRed, LineRedBlue, LineCyan, LineNoFg,
             LineTwoFg, LineUnclosed, LinePattern, LineBadRegex}

SeqsUpTo(S, n) == UNION {[1..k -> S] : k \in 0..n}

----------------------------------------------------------------------------
(* load_color_rules *)

Rule(re, fg, bg) == [regex |-> re, fg_color |-> fg, bg_color |-> bg]

\* the trimmed line of the current iteration
CurLine == Trim(content[line_num + 1])

IsSkipped(l) == l = <<>> \/ StartsWith(l, <<"#">>)

\* line.strip_prefix('[').and_then(|s| s.strip_suffix(']'))
ColorDef(l) ==
    IF IsSome(StripPrefix(l, <<"[">>))
    THEN StripSuffix(Unwrap(StripPrefix(l, <<"[">>)), <<"]">>)
    ELSE None

InitLoad ==
    /\ pc = "load"
    /\ content \in SeqsUpTo(CfgLines, MaxCfgLines)
    /\ line_num = 0
    /\ rules = <<>>
    /\ last_fg = None
    /\ last_bg = None
    /\ awaiting_regex = FALSE
    /\ diag = <<>>
    /\ line = <<>>
    /\ use_color = FALSE
    /\ matches = <<>>
    /\ filtered_matches = <<>>
    /\ last_pos = 0
    /\ next_match = 0
    /\ result = <<>>
    /\ MainAtRest

\* a skipped line that ends the wait for a regex
SkipLine_ResetsAwaiting ==
    /\ pc = "load"
    /\ line_num < Len(content)
    /\ IsSkipped(CurLine)
    /\ line_num' = line_num + 1
    /\ awaiting_regex' = FALSE
    /\ UNCHANGED <<pc, content, rules, last_fg, last_bg, diag>>
    /\ UNCHANGED colorVars
    /\ UNCHANGED mainVars

\* lines 77-79: blank and comment lines
SkipLine ==
    /\ pc = "load"
    /\ line_num < Len(content)
    /\ IsSkipped(CurLine)
    /\ line_num' = line_num + 1
    /\ UNCHANGED <<pc, content, rules, last_fg, last_bg, awaiting_regex, diag>>
    /\ UNCHANGED colorVars
    /\ UNCHANGED mainVars

\* a [..] line with fg read as a new color definition while a regex is awaited
RegexLine_NewDefinition ==
    /\ pc = "load"
    /\ line_num < Len(content)
    /\ ~IsSkipped(CurLine)
    /\ awaiting_regex
    /\ IF /\ IsSome(ColorDef(CurLine))
          /\ IsSome(parse_colors(Unwrap(ColorDef(CurLine)))[1])
       THEN /\ last_fg' = parse_colors(Unwrap(ColorDef(CurLine)))[1]
            /\ last_bg' = parse_colors(Unwrap(ColorDef(CurLine)))[2]
            /\ awaiting_regex' = TRUE
            /\ UNCHANGED <<rules, diag>>
       ELSE /\ IF IsSome(last_fg)
               THEN IF RegexNew(CurLine) = "Ok"
                    THEN /\ rules' = Append(rules, Rule(CurLine, Unwrap(last_fg), last_bg))
                         /\ diag' = diag
                    ELSE /\ rules' = rules
                         /\ diag' = Append(diag, <<"Invalid regex", line_num + 1>>)
               ELSE /\ rules' = rules
                    /\ diag' = Append(diag, <<"Regex without preceding color", line_num + 1>>)
            /\ awaiting_regex' = FALSE
            /\ UNCHANGED <<last_fg, last_bg>>
    /\ line_num' = line_num + 1
    /\ UNCHANGED <<pc, content>>
    /\ UNCHANGED colorVars
    /\ UNCHANGED mainVars

\* the loader still awaiting a regex after one that failed to compile
RegexLine_Retries ==
    /\ pc = "load"
    /\ line_num < Len(content)
    /\ ~IsSkipped(CurLine)
    /\ awaiting_regex
    /\ IF IsSome(last_fg)
       THEN IF RegexNew(CurLine) = "Ok"
            THEN /\ rules' = Append(rules, Rule(CurLine, Unwrap(last_fg), last_bg))
                 /\ diag' = diag
                 /\ awaiting_regex' = FALSE
            ELSE /\ rules' = rules
                 /\ diag' = Append(diag, <<"Invalid regex", line_num + 1>>)
                 /\ awaiting_regex' = TRUE
       ELSE /\ rules' = rules
            /\ diag' = Append(diag, <<"Regex without preceding color", line_num + 1>>)
            /\ awaiting_regex' = FALSE
    /\ line_num' = line_num + 1
    /\ UNCHANGED <<pc, content, last_fg, last_bg>>
    /\ UNCHANGED colorVars
    /\ UNCHANGED mainVars

\* lines 81-99: the line after a color definition
RegexLine ==
    /\ pc = "load"
    /\ line_num < Len(content)
    /\ ~IsSkipped(CurLine)
    /\ awaiting_regex
    /\ IF IsSome(last_fg)
       THEN IF RegexNew(CurLine) = "Ok"
            THEN /\ rules' = Append(rules, Rule(CurLine, Unwrap(last_fg), last_bg))
                 /\ diag' = diag
            ELSE /\ rules' = rules
                 /\ diag' = Append(diag, <<"Invalid regex", line_num + 1>>)
       ELSE /\ rules' = rules
            /\ diag' = Append(diag, <<"Regex without preceding color", line_num + 1>>)
    /\ awaiting_regex' = FALSE
    /\ line_num' = line_num + 1
    /\ UNCHANGED <<pc, content, last_fg, last_bg>>
    /\ UNCHANGED colorVars
    /\ UNCHANGED mainVars

\* the color definition awaiting a regex even when it has no fg
ColorDefLine_AwaitsAlways ==
    /\ pc = "load"
    /\ line_num < Len(content)
    /\ ~IsSkipped(CurLine)
    /\ ~awaiting_regex
    /\ IsSome(ColorDef(CurLine))
    /\ LET fgbg == parse_colors(Unwrap(ColorDef(CurLine))) IN
       IF IsSome(fgbg[1])
       THEN /\ last_fg' = fgbg[1]
            /\ last_bg' = fgbg[2]
            /\ diag' = diag
       ELSE /\ diag' = Append(diag, <<"Missing 'fg:'", line_num + 1>>)
            /\ UNCHANGED <<last_fg, last_bg>>
    /\ awaiting_regex' = TRUE
    /\ line_num' = line_num + 1
    /\ UNCHANGED <<pc, content, rules>>
    /\ UNCHANGED colorVars
    /\ UNCHANGED mainVars

\* the color definition keeping the earlier bg when it has none of its own
ColorDefLine_KeepsBg ==
    /\ pc = "load"
    /\ line_num < Len(content)
    /\ ~IsSkipped(CurLine)
    /\ ~awaiting_regex
    /\ IsSome(ColorDef(CurLine))
    /\ LET fgbg == parse_colors(Unwrap(ColorDef(CurLine))) IN
       IF IsSome(fgbg[1])
       THEN /\ last_fg' = fgbg[1]
            /\ last_bg' = (IF IsSome(fgbg[2]) THEN fgbg[2] ELSE last_bg)
            /\ awaiting_regex' = TRUE
            /\ diag' = diag
       ELSE /\ diag' = Append(diag, <<"Missing 'fg:'", line_num + 1>>)
            /\ UNCHANGED <<last_fg, last_bg, awaiting_regex>>
    /\ line_num' = line_num + 1
    /\ UNCHANGED <<pc, content, rules>>
    /\ UNCHANGED colorVars
    /\ UNCHANGED mainVars

\* the color definition storing its bg before it checks for fg
ColorDefLine_BgFirst ==
    /\ pc = "load"
    /\ line_num < Len(content)
    /\ ~IsSkipped(CurLine)
    /\ ~awaiting_regex
    /\ IsSome(ColorDef(CurLine))
    /\ LET fgbg == parse_colors(Unwrap(ColorDef(CurLine))) IN
       /\ last_bg' = fgbg[2]
       /\ IF IsSome(fgbg[1])
          THEN /\ last_fg' = fgbg[1]
               /\ awaiting_regex' = TRUE
               /\ diag' = diag
          ELSE /\ diag' = Append(diag, <<"Missing 'fg:'", line_num + 1>>)
               /\ UNCHANGED <<last_fg, awaiting_regex>>
    /\ line_num' = line_num + 1
    /\ UNCHANGED <<pc, content, rules>>
    /\ UNCHANGED colorVars
    /\ UNCHANGED mainVars

\* lines 100-112: a [..] line read while no regex is awaited
ColorDefLine ==
    /\ pc = "load"
    /\ line_num < Len(content)
    /\ ~IsSkipped(CurLine)
    /\ ~awaiting_regex
    /\ IsSome(ColorDef(CurLine))
    /\ LET fgbg == parse_colors(Unwrap(ColorDef(CurLine))) IN
       IF IsSome(fgbg[1])
       THEN /\ last_fg' = fgbg[1]
            /\ last_bg' = fgbg[2]
            /\ awaiting_regex' = TRUE
            /\ diag' = diag
       ELSE /\ diag' = Append(diag, <<"Missing 'fg:'", line_num + 1>>)
            /\ UNCHANGED <<last_fg, last_bg, awaiting_regex>>
    /\ line_num' = line_num + 1
    /\ UNCHANGED <<pc, content, rules>>
    /\ UNCHANGED colorVars
    /\ UNCHANGED mainVars

\* a line outside a color definition compiled with the remembered style
OtherLine_UsesLastStyle ==
    /\ pc = "load"
    /\ line_num < Len(content)
    /\ ~IsSkipped(CurLine)
    /\ ~awaiting_regex
    /\ ~IsSome(ColorDef(CurLine))
    /\ rules' = (IF IsSome(last_fg) /\ RegexNew(CurLine) = "Ok"
                 THEN Append(rules, Rule(CurLine, Unwrap(last_fg), last_bg))
                 ELSE rules)
    /\ line_num' = line_num + 1
    /\ UNCHANGED <<pc, content, last_fg, last_bg, awaiting_regex, diag>>
    /\ UNCHANGED colorVars
    /\ UNCHANGED mainVars

\* lines 81/100/113: any other line read while no regex is awaited matches
\* neither branch of the if / else if
OtherLine ==
    /\ pc = "load"
    /\ line_num < Len(content)
    /\ ~IsSkipped(CurLine)
    /\ ~awaiting_regex
    /\ ~IsSome(ColorDef(CurLine))
    /\ line_num' = line_num + 1
    /\ UNCHANGED <<pc, content, rules, last_fg, last_bg, awaiting_regex, diag>>
    /\ UNCHANGED colorVars
    /\ UNCHANGED mainVars

\* line 116
LoadReturn ==
    /\ pc = "load"
    /\ line_num = Len(content)
    /\ pc' = "loaded"
    /\ UNCHANGED <<content, line_num, rules, last_fg, last_bg, awaiting_regex, diag>>
    /\ UNCHANGED colorVars
    /\ UNCHANGED mainVars

NextLoad == SkipLine \/ RegexLine \/ ColorDefLine \/ OtherLine \/ LoadReturn

SpecLoad == InitLoad /\ [][NextLoad]_vars

----------------------------------------------------------------------------
(* load_color_rules run on one [..] line built from parts, with the lines
   around it *)

PartFgRed   == <<"f","g",":","r","e","d">>
PartFgBlue  == <<" ","f","g",":","B","l","u","e">>
PartBgBlack == <<"b","g",":","b","l","a","c","k">>
PartBgOther == <<"b","g",":","x"," ">>
PartNoKey   == <<"f","g">>

DeclParts == {PartFgRed, PartFgBlue, PartBgBlack, PartBgOther, PartNoKey}

\* the parts separated by commas
RECURSIVE JoinParts(_)
JoinParts(ps) ==
    IF ps = <<>> THEN <<>>
    ELSE IF Len(ps) = 1 THEN ps[1]
    ELSE ps[1] \o <<",">> \o JoinParts(Tail(ps))

DeclLine(ps) == <<"[">> \o JoinParts(ps) \o <<"]">>

InitDecl ==
    /\ pc = "load"
    /\ \E ps \in SeqsUpTo(DeclParts, MaxParts) :
       \E pre \in {<<>>, <<LinePattern>>, <<LineRedBlue, LinePattern>>} :
       \E post \in {<<>>, <<LinePattern>>, <<LineComment, LinePattern>>} :
          content = pre \o <<DeclLine(ps)>> \o post
    /\ line_num = 0
    /\ rules = <<>>
    /\ last_fg = None
    /\ last_bg = None
    /\ awaiting_regex = FALSE
    /\ diag = <<>>
    /\ line = <<>>
    /\ use_color = FALSE
    /\ matches = <<>>
    /\ filtered_matches = <<>>
    /\ last_pos = 0
    /\ next_match = 0
    /\ result = <<>>
    /\ MainAtRest

SpecDecl == InitDecl /\ [][NextLoad]_vars

----------------------------------------------------------------------------
(* apply_color_rules *)

\* the text the input lines are prefixes of
Text == <<"a", "b", "c", "d", "e", "f">>

Lines == {SubSeq(Text, 1, n) : n \in 0..MaxLen}

\* the rule lists the colorizer is run with are the prefixes of this list
RuleList == <<Rule(<<"E","R","R">>, "Red", None),
              Rule(<<"O","K">>, "Blue", Some("Black")),
              Rule(<<"[","a","b","]","*">>, "BrightCyan", None)>>

RuleLists == {SubSeq(RuleList, 1, k) : k \in 0..Len(RuleList)}

\* &line[a..b], byte offsets counted from 0
Slice(s, a, b) == SubSeq(s, a + 1, b)

(* rule.regex.captures_iter(line), each capture's group 0: the regex engine
   is not modelled; the iterator yields, left to right, matches
   0 <= start <= end <= len that do not overlap, an empty match never
   touching the match before it.  MatchLists[n][b] is every such list of at
   most b matches on a line of length n. *)
Intervals(n) == {<<s, e>> : s \in 0..n, e \in 0..n} \ {<<s, e>> \in (0..n) \X (0..n) : s > e}

IsMatchList(l) ==
    \A i \in 1..(Len(l) - 1) :
        /\ l[i + 1][1] >= l[i][2]
        /\ (l[i][1] = l[i][2] \/ l[i + 1][1] = l[i + 1][2]) => l[i + 1][1] > l[i][2]

MatchLists ==
    [n \in 0..MaxLen |->
        [b \in 0..MaxMatches |-> {l \in SeqsUpTo(Intervals(n), b) : IsMatchList(l)}]]

\* the match lists of the first k rules, at most b matches in all
RECURSIVE Captures(_, _, _)
Captures(n, k, b) ==
    IF k = 0 THEN {<<>>}
    ELSE UNION {{Append(c, l) : c \in Captures(n, k - 1, b - Len(l))} :
                    l \in MatchLists[n][b]}

\* lines 141-147: the matches pushed, rule by rule, as (start, end, rule_idx)
RECURSIVE PushMatches(_, _)
PushMatches(caps, k) ==
    IF k = 0 THEN <<>>
    ELSE PushMatches(caps, k - 1)
         \o [i \in 1..Len(caps[k]) |-> <<caps[k][i][1], caps[k][i][2], k - 1>>]

\* the comparator without the length tie-break
SortsBefore_StartOnly(a, b) == a[1] < b[1]

\* the comparator with equal spans ordered by descending rule index
SortsBefore_LaterRuleFirst(a, b) ==
    \/ a[1] < b[1]
    \/ a[1] = b[1] /\ (b[2] - b[1]) < (a[2] - a[1])
    \/ a[1] = b[1] /\ a[2] = b[2] /\ a[3] > b[3]

\* line 153: the comparator, a sorts before b
SortsBefore(a, b) ==
    \/ a[1] < b[1]
    \/ a[1] = b[1] /\ (b[2] - b[1]) < (a[2] - a[1])

\* line 153: sort_by is a stable sort
RECURSIVE InsertSorted(_, _)
InsertSorted(x, s) ==
    IF s = <<>> THEN <<x>>
    ELSE IF SortsBefore(x, Head(s)) THEN <<x>> \o s
    ELSE <<Head(s)>> \o InsertSorted(x, Tail(s))

RECURSIVE SortMatches(_)
SortMatches(ms) ==
    IF ms = <<>> THEN <<>>
    ELSE InsertSorted(ms[Len(ms)], SortMatches(SubSeq(ms, 1, Len(ms) - 1)))

\* the scan comparing the end of m instead of its start
Accepts_End(m, last_end) == m[2] >= last_end

\* the scan asking for a gap after the last accepted match
Accepts_Strict(m, last_end) == m[1] > last_end

\* line 159: the greedy scan accepts m
Accepts(m, last_end) == m[1] >= last_end

\* the scan that never moves last_end
RECURSIVE FilterMatches_NoUpdate(_, _)
FilterMatches_NoUpdate(ms, last_end) ==
    IF ms = <<>> THEN <<>>
    ELSE IF Accepts(Head(ms), last_end)
         THEN <<Head(ms)>> \o FilterMatches_NoUpdate(Tail(ms), last_end)
         ELSE FilterMatches_NoUpdate(Tail(ms), last_end)

\* lines 155-163
RECURSIVE FilterMatches(_, _)
FilterMatches(ms, last_end) ==
    IF ms = <<>> THEN <<>>
    ELSE IF Accepts(Head(ms), last_end)
         THEN <<Head(ms)>> \o FilterMatches(Tail(ms), Head(ms)[2])
         ELSE FilterMatches(Tail(ms), last_end)

(* lines 175-181: segment.color(fg), .on_color(bg), to_string() of the
   colored crate: ESC [ bg ; fg m, the text, ESC [ 0 m.  Each escape
   introducer and each number is one element of the output. *)
FgCode(c) ==
    CASE c = "Black" -> "30" [] c = "Red" -> "31" [] c = "Green" -> "32"
      [] c = "Yellow" -> "33" [] c = "Blue" -> "34" [] c = "Magenta" -> "35"
      [] c = "Cyan" -> "36" [] c = "White" -> "37"
      [] c = "BrightBlack" -> "90" [] c = "BrightRed" -> "91"
      [] c = "BrightGreen" -> "92" [] c = "BrightYellow" -> "93"
      [] c = "BrightBlue" -> "94" [] c = "BrightMagenta" -> "95"
      [] c = "BrightCyan" -> "96" [] c = "BrightWhite" -> "97"

BgCode(c) ==
    CASE c = "Black" -> "40" [] c = "Red" -> "41" [] c = "Green" -> "42"
      [] c = "Yellow" -> "43" [] c = "Blue" -> "44" [] c = "Magenta" -> "45"
      [] c = "Cyan" -> "46" [] c = "White" -> "47"
      [] c = "BrightBlack" -> "100" [] c = "BrightRed" -> "101"
      [] c = "BrightGreen" -> "102" [] c = "BrightYellow" -> "103"
      [] c = "BrightBlue" -> "104" [] c = "BrightMagenta" -> "105"
      [] c = "BrightCyan" -> "106" [] c = "BrightWhite" -> "107"

\* the styling without the background
Styled_NoBackground(segment, rule) ==
    <<"ESC[", FgCode(rule.fg_color), "m">> \o segment \o <<"ESC[0m">>

Styled(segment, rule) ==
    (IF IsSome(rule.bg_color)
     THEN <<"ESC[", BgCode(Unwrap(rule.bg_color)), ";", FgCode(rule.fg_color), "m">>
     ELSE <<"ESC[", FgCode(rule.fg_color), "m">>)
    \o segment \o <<"ESC[0m">>

InitColor ==
    /\ pc = "apply"
    /\ line \in Lines
    /\ rules \in RuleLists
    /\ use_color \in BOOLEAN
    /\ matches = <<>>
    /\ filtered_matches = <<>>
    /\ last_pos = 0
    /\ next_match = 0
    /\ result = <<>>
    /\ content = <<>>
    /\ line_num = 0
    /\ last_fg = None
    /\ last_bg = None
    /\ awaiting_regex = FALSE
    /\ diag = <<>>
    /\ MainAtRest

\* the early return taken only when both conditions hold
EarlyReturn_Both == ~use_color /\ rules = <<>>

\* line 135
EarlyReturn == ~use_color \/ rules = <<>>

\* lines 135-137
ReturnLine ==
    /\ pc = "apply"
    /\ EarlyReturn
    /\ result' = line
    /\ pc' = "returned"
    /\ UNCHANGED <<rules, line, use_color, matches, filtered_matches, last_pos, next_match>>
    /\ UNCHANGED loadVars
    /\ UNCHANGED mainVars

\* lines 139-147
CollectMatches ==
    /\ pc = "apply"
    /\ ~EarlyReturn
    /\ \E caps \in Captures(Len(line), Len(rules), MaxMatches) :
          matches' = PushMatches(caps, Len(rules))
    /\ pc' = "collected"
    /\ UNCHANGED <<rules, line, use_color, filtered_matches, last_pos, next_match, result>>
    /\ UNCHANGED loadVars
    /\ UNCHANGED mainVars

\* lines 149-151
ReturnUnmatched ==
    /\ pc = "collected"
    /\ matches = <<>>
    /\ result' = line
    /\ pc' = "returned"
    /\ UNCHANGED <<rules, line, use_color, matches, filtered_matches, last_pos, next_match>>
    /\ UNCHANGED loadVars
    /\ UNCHANGED mainVars

\* lines 153-166: sort, greedy scan, and the start of the rendering
ResolveOverlaps ==
    /\ pc = "collected"
    /\ matches # <<>>
    /\ matches' = SortMatches(matches)
    /\ filtered_matches' = FilterMatches(SortMatches(matches), 0)
    /\ result' = <<>>
    /\ last_pos' = 0
    /\ next_match' = 0
    /\ pc' = "render"
    /\ UNCHANGED <<rules, line, use_color>>
    /\ UNCHANGED loadVars
    /\ UNCHANGED mainVars

\* lines 168-183: one iteration of the rendering loop; a slice or an index
\* out of range panics
RenderMatch ==
    /\ pc = "render"
    /\ next_match < Len(filtered_matches)
    /\ LET m == filtered_matches[next_match + 1]
           start == m[1]
           end == m[2]
           rule_idx == m[3]
       IN IF \/ (start > last_pos /\ start > Len(line))
             \/ rule_idx >= Len(rules)
             \/ start > end
             \/ end > Len(line)
          THEN /\ pc' = "panicked"
               /\ UNCHANGED <<result, last_pos, next_match>>
          ELSE /\ result' = (IF start > last_pos
                             THEN result \o Slice(line, last_pos, start)
                             ELSE result)
                            \o Styled(Slice(line, start, end), rules[rule_idx + 1])
               /\ last_pos' = end
               /\ next_match' = next_match + 1
               /\ pc' = pc
    /\ UNCHANGED <<rules, line, use_color, matches, filtered_matches>>
    /\ UNCHANGED loadVars
    /\ UNCHANGED mainVars

\* the rendering without the text after the last match
RenderTail_Dropped ==
    /\ pc = "render"
    /\ next_match = Len(filtered_matches)
    /\ result' = result
    /\ pc' = "returned"
    /\ UNCHANGED <<rules, line, use_color, matches, filtered_matches, last_pos, next_match>>
    /\ UNCHANGED loadVars
    /\ UNCHANGED mainVars

\* lines 185-189
RenderTail ==
    /\ pc = "render"
    /\ next_match = Len(filtered_matches)
    /\ result' = (IF last_pos < Len(line)
                  THEN result \o Slice(line, last_pos, Len(line))
                  ELSE result)
    /\ pc' = "returned"
    /\ UNCHANGED <<rules, line, use_color, matches, filtered_matches, last_pos, next_match>>
    /\ UNCHANGED loadVars
    /\ UNCHANGED mainVars

NextColor ==
    \/ ReturnLine
    \/ CollectMatches
    \/ ReturnUnmatched
    \/ ResolveOverlaps
    \/ RenderMatch
    \/ RenderTail

SpecColor == InitColor /\ [][NextColor]_vars

----------------------------------------------------------------------------
(* main *)

\* the wrapper files main is run with
MainTexts == {<<>>, <<LinePattern>>, <<LineComment, LineRed, LinePattern>>}

CfgFiles ==
    {[state |-> "missing", text |-> <<>>]}
    \cup {[state |-> st, text |-> t] : st \in {"unreadable", "readable"}, t \in MainTexts}

\* the lines of the child's output
ChildLines == {<<>>, <<"a", "b">>}

\* io::Result<String>
Ok(l) == <<"Ok", l>>
Err == <<"Err">>

ChildItems == {Ok(l) : l \in ChildLines} \cup {Err}

InitMain ==
    /\ pc = "main"
    /\ cfg_file \in CfgFiles
    /\ real_found \in BOOLEAN
    /\ child_out \in SeqsUpTo(ChildItems, MaxItems)
    /\ use_color \in BOOLEAN
    /\ nread = 0
    /\ stdout = <<>>
    /\ content = <<>>
    /\ line_num = 0
    /\ rules = <<>>
    /\ last_fg = None
    /\ last_bg = None
    /\ awaiting_regex = FALSE
    /\ diag = <<>>
    /\ line = <<>>
    /\ matches = <<>>
    /\ filtered_matches = <<>>
    /\ last_pos = 0
    /\ next_match = 0
    /\ result = <<>>

\* line 70: fs::read_to_string(path).unwrap_or_default(), then lines()
ReadToString(file) == IF file.state = "readable" THEN file.text ELSE <<>>

\* main giving up when the wrapper file cannot be read
MainStart_ExitsUnreadable ==
    /\ pc = "main"
    /\ IF cfg_file.state # "readable"
       THEN /\ diag' = Append(diag, <<"Wrapper script not found", 0>>)
            /\ pc' = "exited"
            /\ content' = content
       ELSE IF ~real_found
       THEN /\ diag' = Append(diag, <<"Could not find real program", 0>>)
            /\ pc' = "exited"
            /\ content' = content
       ELSE /\ content' = ReadToString(cfg_file)
            /\ pc' = "load"
            /\ diag' = diag
    /\ UNCHANGED <<line_num, rules, last_fg, last_bg, awaiting_regex>>
    /\ UNCHANGED colorVars
    /\ UNCHANGED mainVars

\* lines 192-204 and 70: the checks of main, then the call of load_color_rules
MainStart ==
    /\ pc = "main"
    /\ IF cfg_file.state = "missing"
       THEN /\ diag' = Append(diag, <<"Wrapper script not found", 0>>)
            /\ pc' = "exited"
            /\ content' = content
       ELSE IF ~real_found
       THEN /\ diag' = Append(diag, <<"Could not find real program", 0>>)
            /\ pc' = "exited"
            /\ content' = content
       ELSE /\ content' = ReadToString(cfg_file)
            /\ pc' = "load"
            /\ diag' = diag
    /\ UNCHANGED <<line_num, rules, last_fg, last_bg, awaiting_regex>>
    /\ UNCHANGED colorVars
    /\ UNCHANGED mainVars

\* lines 206-218: the child is spawned and its stdout is read line by line
Spawn ==
    /\ pc = "loaded"
    /\ pc' = "read"
    /\ UNCHANGED <<rules, loadVars, colorVars, mainVars>>

\* the loop going on to the next item after a read error
ReadLine_Continues ==
    /\ pc = "read"
    /\ nread < Len(child_out)
    /\ nread' = nread + 1
    /\ IF child_out[nread + 1] # Err
       THEN /\ line' = child_out[nread + 1][2]
            /\ matches' = <<>>
            /\ filtered_matches' = <<>>
            /\ last_pos' = 0
            /\ next_match' = 0
            /\ result' = <<>>
            /\ pc' = "apply"
            /\ diag' = diag
       ELSE /\ diag' = Append(diag, <<"Error reading line from child process", nread + 1>>)
            /\ pc' = "read"
            /\ UNCHANGED <<line, matches, filtered_matches, last_pos, next_match, result>>
    /\ UNCHANGED <<rules, use_color, content, line_num, last_fg, last_bg, awaiting_regex>>
    /\ UNCHANGED <<cfg_file, real_found, child_out, stdout>>

\* lines 220-223 and 226-229: the next item of reader.lines(); Ok(line) calls
\* apply_color_rules, Err is reported and ends the loop
ReadLine ==
    /\ pc = "read"
    /\ nread < Len(child_out)
    /\ nread' = nread + 1
    /\ IF child_out[nread + 1] # Err
       THEN /\ line' = child_out[nread + 1][2]
            /\ matches' = <<>>
            /\ filtered_matches' = <<>>
            /\ last_pos' = 0
            /\ next_match' = 0
            /\ result' = <<>>
            /\ pc' = "apply"
            /\ diag' = diag
       ELSE /\ diag' = Append(diag, <<"Error reading line from child process", nread + 1>>)
            /\ pc' = "wait"
            /\ UNCHANGED <<line, matches, filtered_matches, last_pos, next_match, result>>
    /\ UNCHANGED <<rules, use_color, content, line_num, last_fg, last_bg, awaiting_regex>>
    /\ UNCHANGED <<cfg_file, real_found, child_out, stdout>>

\* line 220: reader.lines() is exhausted
ReadEnd ==
    /\ pc = "read"
    /\ nread = Len(child_out)
    /\ pc' = "wait"
    /\ UNCHANGED <<rules, loadVars, colorVars, mainVars>>

\* the line written as it was read
WriteLine_Raw ==
    /\ pc = "returned"
    /\ stdout' = Append(stdout, line)
    /\ pc' = "read"
    /\ UNCHANGED <<rules, loadVars, colorVars>>
    /\ UNCHANGED <<cfg_file, real_found, child_out, nread>>

\* line 224: writeln!(out, "{}", colored) succeeds
WriteLine ==
    /\ pc = "returned"
    /\ stdout' = Append(stdout, result)
    /\ pc' = "read"
    /\ UNCHANGED <<rules, loadVars, colorVars>>
    /\ UNCHANGED <<cfg_file, real_found, child_out, nread>>

\* line 224: writeln! fails and unwrap() panics
WriteFails ==
    /\ pc = "returned"
    /\ pc' = "panicked"
    /\ UNCHANGED <<rules, loadVars, colorVars, mainVars>>

\* line 233
Wait ==
    /\ pc = "wait"
    /\ pc' = "done"
    /\ UNCHANGED <<rules, loadVars, colorVars, mainVars>>

NextMain ==
    \/ MainStart
    \/ SkipLine
    \/ RegexLine
    \/ ColorDefLine
    \/ OtherLine
    \/ LoadReturn
    \/ Spawn
    \/ ReadLine
    \/ ReadEnd
    \/ ReturnLine
    \/ CollectMatches
    \/ ReturnUnmatched
    \/ ResolveOverlaps
    \/ RenderMatch
    \/ RenderTail
    \/ WriteLine
    \/ WriteFails
    \/ Wait

SpecMain == InitMain /\ [][NextMain]_vars

----------------------------------------------------------------------------
(* Reading the colorizer's output *)

InSeq(x, s) == \E i \in DOMAIN s : s[i] = x

Resolved == pc \in {"render", "returned"} /\ matches # <<>>

\* m starts inside a, a match other than m
StartsInside(m, a) == a # m /\ a[1] <= m[1] /\ m[1] < a[2]

RECURSIVE AfterIntroducer(_)
AfterIntroducer(out) ==
    IF out = <<>> THEN <<>>
    ELSE IF Head(out) = "m" THEN Tail(out)
    ELSE AfterIntroducer(Tail(out))

\* the output without its escape sequences
RECURSIVE Destyle(_)
Destyle(out) ==
    IF out = <<>> THEN <<>>
    ELSE IF Head(out) = "ESC[0m" THEN Destyle(Tail(out))
    ELSE IF Head(out) = "ESC[" THEN Destyle(AfterIntroducer(Tail(out)))
    ELSE <<Head(out)>> \o Destyle(Tail(out))

\* the output is bare text and wrappers ESC[ codes m text ESC[0m, not nested;
\* where: "bare", "codes" (inside an introducer) or "styled"
RECURSIVE WellStyled(_, _)
WellStyled(out, where) ==
    IF out = <<>> THEN where = "bare"
    ELSE CASE where = "bare" ->
                /\ Head(out) # "ESC[0m"
                /\ WellStyled(Tail(out), IF Head(out) = "ESC[" THEN "codes" ELSE "bare")
           [] where = "codes" ->
                /\ Head(out) \notin {"ESC[", "ESC[0m"}
                /\ WellStyled(Tail(out), IF Head(out) = "m" THEN "styled" ELSE "codes")
           [] where = "styled" ->
                /\ Head(out) # "ESC["
                /\ WellStyled(Tail(out), IF Head(out) = "ESC[0m" THEN "bare" ELSE "styled")

\* s ends with t
IsSuffix(t, s) == Len(t) <= Len(s) /\ SubSeq(s, Len(s) - Len(t) + 1, Len(s)) = t

----------------------------------------------------------------------------
(* C1: apply_color_rules returns the line as it is when use_color is false,
   when the rule list is empty, or when no rule has a match in the line. *)
C1_Passthrough ==
    (pc = "returned" /\ (~use_color \/ rules = <<>> \/ matches = <<>>))
        => result = line

\* styling on, rules present, no match
C1_Witness ==
    /\ pc = "returned"
    /\ use_color
    /\ Len(rules) = 2
    /\ matches = <<>>
    /\ Len(line) = 3
    /\ result = line

(* C2: with styling on, the output is bare text and style wrappers that are
   not nested, and its text without the escape sequences is the line: every
   byte appears once, in order, bare or inside one wrapper. *)
C2_Coverage ==
    (pc = "returned" /\ use_color)
        => /\ WellStyled(result, "bare")
           /\ Destyle(result) = line

\* bare text, a styled span, an empty styled span, bare text; one match rejected
C2_Witness ==
    /\ pc = "returned"
    /\ Len(matches) = 3
    /\ Len(filtered_matches) = 2
    /\ result[1] = "a"
    /\ result[Len(result)] = "c"
    /\ result # line

(* C3: the accepted matches are in left-to-right order, each starting at or
   after the end of the one before it, and no two of them share a byte
   offset. *)
C3_NonOverlap ==
    Resolved =>
        /\ \A i, j \in DOMAIN filtered_matches :
              i < j => /\ filtered_matches[i][2] <= filtered_matches[j][1]
                       /\ filtered_matches[i][1] <= filtered_matches[j][1]
        /\ \A i, j \in DOMAIN filtered_matches : \A k \in 0..Len(line) :
              i # j => ~(/\ filtered_matches[i][1] <= k /\ k < filtered_matches[i][2]
                         /\ filtered_matches[j][1] <= k /\ k < filtered_matches[j][2])

\* two accepted matches that touch, and one rejected
C3_Witness ==
    /\ pc = "render"
    /\ Len(matches) = 3
    /\ Len(filtered_matches) = 2
    /\ filtered_matches[1][1] < filtered_matches[1][2]
    /\ filtered_matches[1][2] = filtered_matches[2][1]
    /\ filtered_matches[2][1] < filtered_matches[2][2]

(* C4: whenever two different rules A (declared earlier) and B (declared
   later) each have a match with the same start and the same end, A's match
   is the one accepted and B's is not. *)
C4_EarlierRuleAlwaysWins ==
    Resolved =>
        \A i, j \in DOMAIN matches :
            (/\ matches[i][3] < matches[j][3]
             /\ matches[i][1] = matches[j][1]
             /\ matches[i][2] = matches[j][2])
                => /\ InSeq(matches[i], filtered_matches)
                   /\ ~InSeq(matches[j], filtered_matches)

(* C4, amended: when the span the two matches share is not empty, B's match
   is never accepted, and A's match is accepted unless it starts inside an
   accepted match; every accepted match is rendered with the style of its
   own rule. *)
C4_Ties ==
    Resolved =>
        \A i, j \in DOMAIN matches :
            (/\ matches[i][3] < matches[j][3]
             /\ matches[i][1] = matches[j][1]
             /\ matches[i][2] = matches[j][2]
             /\ matches[i][1] < matches[i][2])
                => /\ ~InSeq(matches[j], filtered_matches)
                   /\ InSeq(matches[i], filtered_matches)
                        <=> ~\E k \in DOMAIN filtered_matches :
                                StartsInside(matches[i], filtered_matches[k])

C4_RenderStep ==
    (pc = "render" /\ next_match < Len(filtered_matches))
        => LET m == filtered_matches[next_match + 1] IN
           /\ m[3] + 1 \in DOMAIN rules
           /\ IsSuffix(Styled(Slice(line, m[1], m[2]), rules[m[3] + 1]), result')

\* C4, amended: the tie rule in every resolved state, the style at every
\* rendering step
C4_EarlierRuleWinsTie == []C4_Ties /\ [][C4_RenderStep]_vars

\* rules 0 and 1 match the same span; rule 0's match is rendered, in red
C4_Witness ==
    /\ pc = "returned"
    /\ matches = <<<<1, 3, 0>>, <<1, 3, 1>>>>
    /\ filtered_matches = <<<<1, 3, 0>>>>
    /\ result = <<"a", "ESC[", "31", "m", "b", "c", "ESC[0m">>

(* C5: of two matches with the same start and different lengths the longer
   one comes first in the sorted list, whichever rule was declared first, and
   the shorter one is never accepted. *)
C5_LongerFirst ==
    Resolved =>
        \A i, j \in DOMAIN matches :
            (/\ matches[i][1] = matches[j][1]
             /\ matches[i][2] > matches[j][2])
                => /\ i < j
                   /\ ~InSeq(matches[j], filtered_matches)

\* the later rule's longer match is rendered, the earlier rule's is not
C5_Witness ==
    /\ pc = "returned"
    /\ matches = <<<<0, 2, 1>>, <<0, 1, 0>>>>
    /\ filtered_matches = <<<<0, 2, 1>>>>
    /\ result = <<"ESC[", "40", ";", "34", "m", "a", "b", "ESC[0m", "c">>

----------------------------------------------------------------------------
(* Reference reading of a configuration, used to state the loader's claims *)

\* the content lines (trimmed; blank and comment lines left out) of lines a..b
RECURSIVE ContentLines(_, _, _)
ContentLines(c, a, b) ==
    IF a > b THEN <<>>
    ELSE IF IsSkipped(Trim(c[a])) THEN ContentLines(c, a + 1, b)
    ELSE <<Trim(c[a])>> \o ContentLines(c, a + 1, b)

\* a part of the [..] line carries the key
HasKey(l, key) ==
    /\ IsSome(ColorDef(l))
    /\ \E i \in DOMAIN Split(Unwrap(ColorDef(l)), ",") :
          StartsWith(Trim(Split(Unwrap(ColorDef(l)), ",")[i]), key)

\* a style declaration with fg
IsDeclaration(l) == HasKey(l, FgPrefix)

\* each declaration paired with the content line after it
RECURSIVE PairUp(_)
PairUp(ls) ==
    IF ls = <<>> THEN <<>>
    ELSE IF ~IsDeclaration(Head(ls)) THEN PairUp(Tail(ls))
    ELSE IF Len(ls) = 1 THEN <<>>
    ELSE (IF RegexNew(ls[2]) = "Ok"
          THEN <<Rule(ls[2],
                      Unwrap(parse_colors(Unwrap(ColorDef(ls[1])))[1]),
                      parse_colors(Unwrap(ColorDef(ls[1])))[2])>>
          ELSE <<>>) \o PairUp(Tail(Tail(ls)))

\* the loader is about to read a content line
AtContentLine ==
    /\ pc = "load"
    /\ line_num < Len(content)
    /\ ~IsSkipped(CurLine)

Consumed == line_num' = line_num + 1 /\ pc' = "load" /\ content' = content

----------------------------------------------------------------------------
(* C6: the rule list returned by load_color_rules holds exactly one rule for
   each pair (declaration with fg read in Idle, next content line if it
   compiles), in order of appearance, each with the fg and bg of its own
   declaration; a declaration without a following content line yields no
   rule. *)
C6_RulesArePairs ==
    pc = "loaded" => rules = PairUp(ContentLines(content, 1, Len(content)))

\* a declaration with bg, then one without: the second rule has no background
C6_Witness ==
    /\ pc = "loaded"
    /\ Len(rules) = 2
    /\ rules[1].fg_color = "Red"
    /\ rules[1].bg_color = Some("Blue")
    /\ rules[2].fg_color = "Red"
    /\ rules[2].bg_color = None

(* C7: a line that fails to compile after a valid declaration reports a
   diagnostic, stores no rule and returns the loader to Idle; the rules
   stored before it stay, and the pairs after it still produce their
   rules. *)
C7_FailStep ==
    (AtContentLine /\ awaiting_regex /\ RegexNew(CurLine) = "Err")
        => /\ Consumed
           /\ rules' = rules
           /\ awaiting_regex' = FALSE
           /\ diag' = Append(diag, <<"Invalid regex", line_num + 1>>)

C7_RulesAround ==
    \A i \in DOMAIN diag :
        diag[i][1] = "Invalid regex" =>
            /\ diag[i][2] <= line_num
            /\ rules = PairUp(ContentLines(content, 1, diag[i][2] - 1))
                       \o PairUp(ContentLines(content, diag[i][2] + 1, line_num))

\* C7: the failing step changes nothing but the diagnostics, and the rules are
\* those of the pairs before and after the failing line
C7_InvalidRegexSkipped == [][C7_FailStep]_vars /\ []C7_RulesAround

\* a declaration with a failing pattern, then a good pair: the pair has its rule
C7_Witness ==
    /\ pc = "loaded"
    /\ \E i \in DOMAIN diag : diag[i] = <<"Invalid regex", 2>>
    /\ Len(rules) = 1
    /\ Len(content) = 4
    /\ rules[1].regex = Trim(content[4])

(* C8: a content line that is not a [..] line, read in Idle, adds no rule
   and leaves the loader Idle; a configuration in which no [..] line comes
   before a content line produces zero rules. *)
C8_IdleStep ==
    (AtContentLine /\ ~awaiting_regex /\ ~IsSome(ColorDef(CurLine)))
        => /\ Consumed
           /\ rules' = rules
           /\ awaiting_regex' = FALSE
           /\ last_fg' = last_fg
           /\ last_bg' = last_bg

C8_NoRules ==
    LET ls == ContentLines(content, 1, Len(content)) IN
    (pc = "loaded" /\ \A i \in 1..(Len(ls) - 1) : ~IsSome(ColorDef(ls[i])))
        => rules = <<>>

\* C8: the Idle step changes nothing, and such a configuration has no rules
C8_PatternInIdleIgnored == [][C8_IdleStep]_vars /\ []C8_NoRules

\* a pattern line first, a declaration last: no rule
C8_Witness ==
    /\ pc = "loaded"
    /\ Len(content) = 2
    /\ content[1] = LinePattern
    /\ content[2] = LineRed
    /\ rules = <<>>
    /\ awaiting_regex

(* C9: every pattern line read while the loader is Idle reports the
   diagnostic "pattern without preceding color" for that line. *)
C9_IdleStep ==
    (AtContentLine /\ ~awaiting_regex /\ ~IsSome(ColorDef(CurLine)))
        => diag' = Append(diag, <<"Regex without preceding color", line_num + 1>>)

\* C9: every such step appends the diagnostic
C9_IdlePatternReported == [][C9_IdleStep]_vars

(* C10: a [..] line without fg read in Idle reports "missing fg", leaves the
   loader Idle, adds no rule and leaves the remembered fg and bg as they
   were; the content line after it is read in Idle. *)
C10_Step ==
    (AtContentLine /\ ~awaiting_regex /\ IsSome(ColorDef(CurLine))
                   /\ ~HasKey(CurLine, FgPrefix))
        => /\ Consumed
           /\ diag' = Append(diag, <<"Missing 'fg:'", line_num + 1>>)
           /\ awaiting_regex' = FALSE
           /\ rules' = rules
           /\ last_fg' = last_fg
           /\ last_bg' = last_bg

\* C10: every such step only appends the "missing fg" diagnostic
C10_MissingFgStaysIdle == [][C10_Step]_vars

\* [fg:red], pattern, [bg:black]: the remembered style is still red, no bg
C10_Witness ==
    /\ line_num = 3
    /\ diag = <<<<"Missing 'fg:'", 3>>>>
    /\ ~awaiting_regex
    /\ last_fg = Some("Red")
    /\ last_bg = None
    /\ Len(rules) = 1

----------------------------------------------------------------------------
(* Reference rendering, used to state the claims about main's loop *)

\* the accepted matches f rendered over the line from offset pos on
RECURSIVE RenderFrom(_, _, _, _)
RenderFrom(l, rs, f, pos) ==
    IF f = <<>> THEN Slice(l, pos, Len(l))
    ELSE Slice(l, pos, f[1][1])
         \o Styled(Slice(l, f[1][1], f[1][2]), rs[f[1][3] + 1])
         \o RenderFrom(l, rs, Tail(f), f[1][2])

\* the colorized image of the line l, ms being the matches of the rules in l
Colorized(l, rs, flag, ms) ==
    IF ~flag \/ rs = <<>> \/ ms = <<>> THEN l
    ELSE RenderFrom(l, rs, FilterMatches(SortMatches(ms), 0), 0)

InLoop == pc \in {"read", "apply", "collected", "render", "returned"}

----------------------------------------------------------------------------
(* C11: when the configuration source cannot be read, load_color_rules
   returns an empty rule list without failing, and every line is passed
   through unchanged. *)
C11_UnreadableIsNoRules ==
    (cfg_file.state = "unreadable" /\ real_found)
        => /\ pc # "exited"
           /\ content = <<>>
           /\ rules = <<>>
           /\ diag = <<>> \/ pc \in {"wait", "done"}
           /\ \A i \in DOMAIN stdout : stdout[i] = child_out[i][2]

\* an unreadable file that holds a rule, styling on, three lines passed through
C11_Witness ==
    /\ pc = "done"
    /\ cfg_file.state = "unreadable"
    /\ cfg_file.text # <<>>
    /\ use_color
    /\ Len(stdout) = 3
    /\ stdout[1] = <<"a", "b">>

(* C12: the lines written are the colorized images of a prefix of the lines
   read, one per line and in the same order; a line is written before the
   next one is read; the loop never changes the rule list; what is written
   for a line is a function of that line, the rules and the flag. *)
C12_Prefix ==
    /\ Len(stdout) <= nread
    /\ nread <= Len(stdout) + 1
    /\ pc = "read" => nread = Len(stdout)
    /\ \A i \in DOMAIN stdout :
          /\ child_out[i] # Err
          /\ Destyle(stdout[i]) = child_out[i][2]
          /\ (~use_color \/ rules = <<>>) => stdout[i] = child_out[i][2]

C12_Step ==
    /\ InLoop => rules' = rules
    /\ stdout' # stdout =>
          /\ pc = "returned"
          /\ line = child_out[nread][2]
          /\ stdout' = Append(stdout, Colorized(line, rules, use_color, matches))
    /\ nread' # nread => (nread' = nread + 1 /\ Len(stdout) = nread)

\* C12: the prefix relation in every state, the write and read steps
C12_OrderPreserved == []C12_Prefix /\ [][C12_Step]_vars

\* three lines written, the first one styled
C12_Witness ==
    /\ pc = "done"
    /\ use_color
    /\ Len(stdout) = 3
    /\ stdout[1] # child_out[1][2]
    /\ stdout[2] = <<>>
    /\ stdout[3] = <<"a", "b">>

(* C13: a read error is reported and ends the loop: nothing is read or
   written after the first error, and what was written before it stays. *)
C13_AfterError ==
    \A i \in DOMAIN diag :
        diag[i][1] = "Error reading line from child process" =>
            /\ pc \in {"wait", "done"}
            /\ nread = diag[i][2]
            /\ child_out[nread] = Err
            /\ \A k \in 1..(nread - 1) : child_out[k] # Err
            /\ Len(stdout) = nread - 1

C13_Step ==
    /\ (pc = "read" /\ nread < Len(child_out) /\ child_out[nread + 1] = Err)
         => /\ diag' = Append(diag, <<"Error reading line from child process", nread + 1>>)
            /\ pc' = "wait"
            /\ stdout' = stdout
    /\ pc \in {"wait", "done"} => (stdout' = stdout /\ nread' = nread /\ diag' = diag)

\* C13: the state after an error, the error step and the steps after it
C13_ReadErrorEndsLoop == []C13_AfterError /\ [][C13_Step]_vars

\* a line, an error, and a line that is never read
C13_Witness ==
    /\ pc = "done"
    /\ child_out = <<Ok(<<"a", "b">>), Err, Ok(<<"a", "b">>)>>
    /\ nread = 2
    /\ Len(stdout) = 1
    /\ Len(diag) = 1

----------------------------------------------------------------------------
(* C14: apply_color_rules is total: at every step of the rendering loop
   last_pos <= start <= end <= len(line) and the rule index is within the
   rule list, so no slice or index is out of range, and the cursor never
   moves backwards. *)
C14_InRange ==
    /\ pc # "panicked"
    /\ last_pos <= Len(line)
    /\ (pc = "render" /\ next_match < Len(filtered_matches)) =>
          LET m == filtered_matches[next_match + 1] IN
          /\ last_pos <= m[1]
          /\ m[1] <= m[2]
          /\ m[2] <= Len(line)
          /\ m[3] >= 0
          /\ m[3] < Len(rules)

\* C14: the ranges in every state, the cursor at every step
C14_Total == []C14_InRange /\ [][last_pos' >= last_pos]_vars

\* the second iteration of the loop, with text between the two matches
C14_Witness ==
    /\ pc = "render"
    /\ next_match = 1
    /\ Len(filtered_matches) = 2
    /\ last_pos > 0
    /\ filtered_matches[2][1] > last_pos
    /\ filtered_matches[2][2] = Len(line)

----------------------------------------------------------------------------
(* Reading the keys of a [..] line *)

DefParts(l) == Split(Unwrap(ColorDef(l)), ",")

\* the parts of the [..] line that carry the key
KeyParts(l, key) == {i \in DOMAIN DefParts(l) : StartsWith(Trim(DefParts(l)[i]), key)}

CountKey(l, key) == Cardinality(KeyParts(l, key))

\* the color named by the last part that carries the key
LastValue(l, key) ==
    LET i == CHOOSE k \in KeyParts(l, key) : \A j \in KeyParts(l, key) : j <= k
        part == Trim(DefParts(l)[i])
    IN parse_color(SubSeq(part, Len(key) + 1, Len(part)))

AtIdleDef ==
    AtContentLine /\ ~awaiting_regex /\ IsSome(ColorDef(CurLine))

----------------------------------------------------------------------------
(* C15: a [spec] line moves the loader from Idle to AwaitingPattern only
   when the fg key occurs exactly once in it and the bg key at most once. *)
C15_OnceStep ==
    (AtIdleDef /\ awaiting_regex')
        => (CountKey(CurLine, FgPrefix) = 1 /\ CountKey(CurLine, BgPrefix) <= 1)

C15_KeysOnlyOnce == [][C15_OnceStep]_vars

(* C15, amended: a [spec] line read in Idle moves the loader to
   AwaitingPattern exactly when the fg key occurs at least once; a key may
   occur any number of times, and its last occurrence gives the remembered
   color (no bg part, no background). *)
C15_LastStep ==
    AtIdleDef =>
        /\ awaiting_regex' <=> CountKey(CurLine, FgPrefix) >= 1
        /\ CountKey(CurLine, FgPrefix) >= 1 =>
              /\ last_fg' = Some(LastValue(CurLine, FgPrefix))
              /\ last_bg' = (IF CountKey(CurLine, BgPrefix) = 0 THEN None
                             ELSE Some(LastValue(CurLine, BgPrefix)))

\* C15, amended: every step that reads a [..] line in Idle
C15_LastKeyWins == [][C15_LastStep]_vars

\* [fg:red, fg:Blue,bg:black] read in Idle: a declaration, blue on black
C15_Witness ==
    /\ line_num = 1
    /\ content[1] = DeclLine(<<PartFgRed, PartFgBlue, PartBgBlack>>)
    /\ awaiting_regex
    /\ last_fg = Some("Blue")
    /\ last_bg = Some("Black")

----------------------------------------------------------------------------
(* Reading the styled spans of the output *)

\* the elements before the first stop
RECURSIVE TakeUntil(_, _)
TakeUntil(o, stop) ==
    IF o = <<>> \/ Head(o) = stop THEN <<>>
    ELSE <<Head(o)>> \o TakeUntil(Tail(o), stop)

\* the elements after the first stop
RECURSIVE DropThrough(_, _)
DropThrough(o, stop) ==
    IF o = <<>> THEN <<>>
    ELSE IF Head(o) = stop THEN Tail(o)
    ELSE DropThrough(Tail(o), stop)

\* the wrappers of the output, each <<start, end, codes>>, start and end
\* being offsets in the text without escape sequences
RECURSIVE Spans(_, _)
Spans(o, off) ==
    IF o = <<>> THEN <<>>
    ELSE IF Head(o) = "ESC["
    THEN LET codes == TakeUntil(Tail(o), "m")
             body == TakeUntil(DropThrough(Tail(o), "m"), "ESC[0m")
         IN <<<<off, off + Len(body), codes>>>>
            \o Spans(DropThrough(o, "ESC[0m"), off + Len(body))
    ELSE Spans(Tail(o), off + 1)

\* the codes of a rule's style
Codes(rule) ==
    IF rule.bg_color = None THEN <<FgCode(rule.fg_color)>>
    ELSE <<BgCode(rule.bg_color[2]), ";", FgCode(rule.fg_color)>>

----------------------------------------------------------------------------
(* C16: every styled span of the output is the full interval of one
   collected match, in the style of that match's rule; the spans are the
   accepted matches, so a rejected match is rendered neither whole nor in
   part. *)
C16_SpansAreAccepted ==
    (pc = "returned" /\ matches # <<>>) =>
        LET sp == Spans(result, 0) IN
        /\ Len(sp) = Len(filtered_matches)
        /\ \A i \in DOMAIN sp :
              LET m == filtered_matches[i] IN
              /\ InSeq(m, matches)
              /\ sp[i] = <<m[1], m[2], Codes(rules[m[3] + 1])>>
        /\ \A j \in DOMAIN matches :
              ~InSeq(matches[j], filtered_matches) =>
                  \A i \in DOMAIN sp :
                      sp[i] # <<matches[j][1], matches[j][2], Codes(rules[matches[j][3] + 1])>>

\* rule 1's match [1,3) overlaps the accepted [0,2): "c" stays bare
C16_Witness ==
    /\ pc = "returned"
    /\ matches = <<<<0, 2, 0>>, <<1, 3, 1>>>>
    /\ filtered_matches = <<<<0, 2, 0>>>>
    /\ result = <<"ESC[", "31", "m", "a", "b", "ESC[0m", "c">>

(* C20: every collected match that is not accepted starts inside an accepted
   match: no match that is disjoint from all accepted matches is dropped. *)
C20_Maximal ==
    Resolved =>
        \A j \in DOMAIN matches :
            ~InSeq(matches[j], filtered_matches) =>
                \E i \in DOMAIN filtered_matches :
                    /\ filtered_matches[i][1] <= matches[j][1]
                    /\ matches[j][1] < filtered_matches[i][2]

\* an accepted match, a rejected one inside it, and an accepted one touching it
C20_Witness ==
    /\ pc = "render"
    /\ matches = <<<<0, 2, 0>>, <<1, 2, 1>>, <<2, 3, 2>>>>
    /\ filtered_matches = <<<<0, 2, 0>>, <<2, 3, 2>>>>

----------------------------------------------------------------------------
(* C17: while a pattern is awaited every content line, a [..] line included,
   is taken as the pattern of the pending declaration, never as a new
   declaration: the remembered style stays, the line yields the rule of the
   pending style or an "Invalid regex" diagnostic, and the loader is Idle
   after it either way. *)
C17_Step ==
    (AtContentLine /\ awaiting_regex)
        => /\ Consumed
           /\ awaiting_regex' = FALSE
           /\ last_fg' = last_fg
           /\ last_bg' = last_bg
           /\ IF RegexNew(CurLine) = "Ok"
              THEN /\ rules' = Append(rules, Rule(CurLine, Unwrap(last_fg), last_bg))
                   /\ diag' = diag
              ELSE /\ rules' = rules
                   /\ diag' = Append(diag, <<"Invalid regex", line_num + 1>>)

\* C17: every step on a content line in AwaitingPattern is the pattern step
C17_PatternConsumed == [][C17_Step]_vars

\* [fg:red] then [fg:Red, bg:blue]: the second line is the pattern of the first
C17_Witness ==
    /\ content = <<LineRed, LineRedBlue>>
    /\ line_num = 2
    /\ rules = <<Rule(Trim(LineRedBlue), "Red", None)>>
    /\ last_fg = Some("Red")
    /\ last_bg = None
    /\ ~awaiting_regex

----------------------------------------------------------------------------
(* Blank and comment lines, read off the untrimmed line *)

IsBlank(l) == \A i \in DOMAIN l : l[i] = " "

\* the first non-space character is #
IsComment(l) ==
    \E i \in DOMAIN l : l[i] = "#" /\ \A j \in 1..(i - 1) : l[j] = " "

Skippable(l) == IsBlank(l) \/ IsComment(l)

\* the last line among the first n that is neither blank nor a comment, or 0
RECURSIVE LastContentLine(_, _)
LastContentLine(c, n) ==
    IF n = 0 THEN 0
    ELSE IF Skippable(c[n]) THEN LastContentLine(c, n - 1)
    ELSE n

(* C18: a blank or comment line is skipped in both parser states: it changes
   neither the rules, the diagnostics, awaiting_regex nor the remembered
   colors. *)
C18_SkipStep ==
    (pc = "load" /\ line_num < Len(content) /\ Skippable(content[line_num + 1]))
        => /\ Consumed
           /\ UNCHANGED <<rules, diag, awaiting_regex, last_fg, last_bg>>

\* the content line after a declaration and some skipped lines completes the
\* declaration: with a pattern that compiles it yields the declaration's rule
C18_CompleteStep ==
    (/\ AtContentLine
     /\ awaiting_regex
     /\ line_num >= 1
     /\ Skippable(content[line_num])
     /\ RegexNew(CurLine) = "Ok")
        => LET d == Trim(content[LastContentLine(content, line_num)]) IN
           /\ IsDeclaration(d)
           /\ rules' = Append(rules, Rule(CurLine,
                                          Unwrap(parse_colors(Unwrap(ColorDef(d)))[1]),
                                          parse_colors(Unwrap(ColorDef(d)))[2]))
           /\ awaiting_regex' = FALSE

\* C18: skipped lines have no effect in either state, and the declaration
\* before them is completed by the content line after them
C18_SkippedLinesHaveNoEffect == [][C18_SkipStep]_vars /\ [][C18_CompleteStep]_vars

\* a declaration, a blank line, a comment, then the pattern: one rule
C18_Witness ==
    /\ pc = "loaded"
    /\ content = <<LineRedBlue, LineBlank, LineComment, LinePattern>>
    /\ rules = <<Rule(LinePattern, "Red", Some("Blue"))>>
    /\ diag = <<>>
    /\ ~awaiting_regex

----------------------------------------------------------------------------
(* C19: in every state of load_color_rules an awaited regex has a remembered
   fg, a remembered bg has a remembered fg, and the "Regex without preceding
   color" arm has never run. *)
C19_FgBeforeRegex ==
    /\ awaiting_regex => IsSome(last_fg)
    /\ IsSome(last_bg) => IsSome(last_fg)
    /\ \A i \in DOMAIN diag : diag[i][1] # "Regex without preceding color"

\* a declaration with fg and bg has been read and its regex is awaited
C19_Witness ==
    /\ pc = "load"
    /\ awaiting_regex
    /\ last_fg = Some("Red")
    /\ last_bg = Some("Blue")

============================================================================
